---------------------------- MODULE Spec2Model ----------------------------
(***************************************************************************)
(* Model of intel_agent.py: a five-node LangGraph workflow (planner, jobs, *)
(* news, insight_gen, dashboard) threading one IntelState dict through     *)
(* the nodes.                                                              *)
(*                                                                         *)
(* Strings are sequences of tokens.  Texts whose length matters (element   *)
(* texts, titles) use one token per character; URLs and class attributes   *)
(* use a token per fragment.                                               *)
(***************************************************************************)
EXTENDS Integers, Sequences, FiniteSets, TLC

VARIABLES
    args,       \* args.competitor, the --competitor argument
    mainpc,     \* position of main(): "banner", "invoke", "returned", "exited", "crashed"
    state,      \* the IntelState dict held by the running graph
    frontier,   \* nodes the graph has scheduled for its next step
    running,    \* nodes that have been entered and have not returned
    fetching,   \* scout nodes blocked inside requests.get
    elapsed,    \* per scout node: time units spent waiting in requests.get
    outcome,    \* per scout node: how its requests.get ended
    caught,     \* per scout node: the exception its except clause caught
    fetches,    \* URLs passed to requests.get, in call order
    started,    \* nodes in the order they were entered
    returned,   \* nodes in the order they returned
    raised,     \* where an exception escaped: "none", a node, or "main"
    result      \* <<>> until app.invoke returns, then <<final state>>

vars == <<args, mainpc, state, frontier, running, fetching, elapsed, outcome,
          caught, fetches, started, returned, raised, result>>

---------------------------------------------------------------------------
(* Bounds and program constants *)

\* longest document (in elements) a fetch may return
MaxElems == 1

\* requests.get(..., timeout=10)
TIMEOUT == 10

\* job_elements[:3] and find_all(..., limit=3)
LIMIT == 3

\* len(title) > 10
MIN_LEN == 10

\* title[:100]
MAX_TITLE == 100

---------------------------------------------------------------------------
(* Strings *)

Min(a, b) == IF a < b THEN a ELSE b

\* n copies of the character x
X(n) == [i \in 1..n |-> "x"]

\* str.lower(), token by token
LowerToken(t) ==
    CASE t = "A" -> "a"
      [] t = "Job" -> "job"
      [] t = "Position" -> "position"
      [] OTHER -> t

Lower(s) == [i \in 1..Len(s) |-> LowerToken(s[i])]

\* 'tok' in s
Contains(s, tok) == \E i \in 1..Len(s) : s[i] = tok

\* get_text(strip=True) of an element holding one text node
Strip(s) ==
    LET keep == {i \in 1..Len(s) : s[i] # " "}
        lo == CHOOSE i \in keep : \A j \in keep : i <= j
        hi == CHOOSE i \in keep : \A j \in keep : j <= i
    IN  IF keep = {} THEN <<>> ELSE SubSeq(s, lo, hi)

\* s[:n]
Prefix(s, n) == SubSeq(s, 1, Min(n, Len(s)))

\* rich raises MarkupError on a closing tag that closes nothing; every text
\* the program interpolates into console markup is interpolated unescaped.
MarkupError(s) ==
    \E i \in 1..(Len(s) - 2) : s[i] = "[" /\ s[i+1] = "/" /\ s[i+2] = "]"

\* console.print(text): completes iff the output sink accepts the write and
\* the interpolated text renders as markup.
ConsolePrints(sinkOk, text) == sinkOk /\ ~MarkupError(text)

---------------------------------------------------------------------------
(* Inputs *)

Subjects == { <<"A", "c">>, <<>>, <<"[", "/", "]">> }

Element(name, class, text) == [name |-> name, class |-> class, text |-> text]

Elems ==
    { Element("div", <<"Job", "-card">>, X(11)),
      Element("li", <<"open-", "position">>, <<" ">> \o X(10) \o <<" ">>),
      Element("h2", <<>>, X(11)),
      Element("h3", <<"post">>, <<"[", "/", "]">> \o X(8)) }

Docs == UNION { [1..n -> Elems] : n \in 0..MaxElems }

StatusCodes == {200, 404}

Pending == [kind |-> "pending", status |-> 0, rejected |-> FALSE, doc |-> <<>>]

\* a response whose body html.parser can parse
Response(code, doc) ==
    [kind |-> "response", status |-> code, rejected |-> FALSE, doc |-> doc]

\* a response whose body makes BeautifulSoup raise ParserRejectedMarkup
Rejected(code) ==
    [kind |-> "response", status |-> code, rejected |-> TRUE, doc |-> <<>>]

ConnectionFailure ==
    [kind |-> "ConnectionError", status |-> 0, rejected |-> FALSE, doc |-> <<>>]

TimedOut == [kind |-> "Timeout", status |-> 0, rejected |-> FALSE, doc |-> <<>>]

\* what requests.get can produce before its timeout expires
Arrivals ==
    { Response(c, d) : c \in StatusCodes, d \in Docs }
        \cup { Rejected(200), ConnectionFailure }

---------------------------------------------------------------------------
(* The graph *)

END == "__end__"

Nodes == {"planner", "jobs", "news", "insight_gen", "dashboard"}

ScoutNodes == {"jobs", "news"}

EntryPoint == "planner"

\* the graph with the news edge drawn from planner instead of jobs
EdgesFanOut ==
    { <<"planner", "jobs">>, <<"planner", "news">>, <<"news", "insight_gen">>,
      <<"insight_gen", "dashboard">>, <<"dashboard", END>> }

Edges ==
    { <<"planner", "jobs">>, <<"jobs", "news">>, <<"news", "insight_gen">>,
      <<"insight_gen", "dashboard">>, <<"dashboard", END>> }

Succ(n) == { e[2] : e \in { d \in Edges : d[1] = n } }

initial_state(competitor) ==
    [competitor |-> competitor, target_urls |-> <<>>, job_data |-> <<>>,
     news_data |-> <<>>, insights |-> <<>>, use_mcp |-> FALSE]


---------------------------------------------------------------------------
(* The node functions *)

CareersUrl(competitor) == <<"https://www.">> \o Lower(competitor) \o <<".com/careers">>

BlogUrl(competitor) == <<"https://www.">> \o Lower(competitor) \o <<".com/blog">>

ChangelogUrl(competitor) == <<"https://www.">> \o Lower(competitor) \o <<".com/changelog">>

\* a planner that normalises the competitor name it stores
planner_stores_lowercase(st) ==
    [st EXCEPT !.competitor = Lower(st.competitor),
               !.target_urls =
                    << CareersUrl(st.competitor), BlogUrl(st.competitor),
                       ChangelogUrl(st.competitor) >>]

\* a planner that interpolates the competitor name as given
planner_keeps_case(st) ==
    [st EXCEPT !.target_urls =
        << <<"https://www.">> \o st.competitor \o <<".com/careers">>,
           <<"https://www.">> \o st.competitor \o <<".com/blog">>,
           <<"https://www.">> \o st.competitor \o <<".com/changelog">> >>]

intelligence_planner(st) ==
    [st EXCEPT !.target_urls =
        << CareersUrl(st.competitor), BlogUrl(st.competitor),
           ChangelogUrl(st.competitor) >>]

\* class_=lambda x: x and ('job' in x.lower() or 'position' in x.lower())
ClassMatches(x) ==
    x # <<>> /\ (Contains(Lower(x), "job") \/ Contains(Lower(x), "position"))

\* soup.find_all(['div', 'li'], class_=...)
JobElements(doc) ==
    SelectSeq(doc, LAMBDA e : e.name \in {"div", "li"} /\ ClassMatches(e.class))

\* soup.find_all(['h1', 'h2', 'h3'], limit=3)
Articles(doc) ==
    Prefix(SelectSeq(doc, LAMBDA e : e.name \in {"h1", "h2", "h3"}), LIMIT)

\* the loop body with the length test written >= instead of >
SnippetsAtLeast(elements, source) ==
    LET kept == SelectSeq(elements,
                    LAMBDA e : Strip(e.text) # <<>> /\ Len(Strip(e.text)) >= MIN_LEN)
    IN  [i \in 1..Len(kept) |->
            [title |-> Prefix(Strip(kept[i].text), MAX_TITLE), source |-> source]]

\* the loop body: title = get_text(strip=True); if title and len(title) > 10:
\* append {"title": title[:100], "source": source}
Snippets(elements, source) ==
    LET kept == SelectSeq(elements,
                    LAMBDA e : Strip(e.text) # <<>> /\ Len(Strip(e.text)) > MIN_LEN)
    IN  [i \in 1..Len(kept) |->
            [title |-> Prefix(Strip(kept[i].text), MAX_TITLE), source |-> source]]

\* job_scout looping over job_elements without the [:3]
JobSnippetsUnsliced(doc) == Snippets(JobElements(doc), "careers_page")

\* job_scout filtering every job element and keeping the first three results
JobSnippetsFilterFirst(doc) ==
    Prefix(Snippets(JobElements(doc), "careers_page"), LIMIT)

\* the list built by job_scout's loop over job_elements[:3]
JobSnippets(doc) == Snippets(Prefix(JobElements(doc), LIMIT), "careers_page")

\* the list built by news_hunter's loop over articles
NewsSnippets(doc) == Snippets(Articles(doc), "blog")

\* The exception, if any, that ends a scout's try block: requests.get raises,
\* BeautifulSoup rejects the body, or the "Found n ..." console.print raises.
TryException(o, logOk) ==
    IF o.kind \in {"ConnectionError", "Timeout"} THEN o.kind
    ELSE IF o.rejected THEN "ParserRejectedMarkup"
    ELSE IF ~ConsolePrints(logOk, <<"Found">>) THEN "ConsoleError"
    ELSE "none"

\* a job_scout whose except clause does not reset job_data
job_scout_keeps_partial(st, o, logOk) ==
    [st EXCEPT !.job_data =
        IF TryException(o, logOk) \in {"none", "ConsoleError"}
        THEN JobSnippets(o.doc) ELSE <<>>]

\* a job_scout that returns a fresh dict instead of {**state, ...}
job_scout_fresh_dict(st, o, logOk) ==
    [initial_state(st.competitor) EXCEPT !.job_data =
        IF TryException(o, logOk) = "none" THEN JobSnippets(o.doc) ELSE <<>>]

job_scout(st, o, logOk) ==
    [st EXCEPT !.job_data =
        IF TryException(o, logOk) = "none" THEN JobSnippets(o.doc) ELSE <<>>]

\* a news_hunter that gives up when the jobs stage found nothing
news_hunter_after_jobs(st, o, logOk) ==
    [st EXCEPT !.news_data =
        IF TryException(o, logOk) = "none" /\ st.job_data # <<>>
        THEN NewsSnippets(o.doc) ELSE <<>>]

news_hunter(st, o, logOk) ==
    [st EXCEPT !.news_data =
        IF TryException(o, logOk) = "none" THEN NewsSnippets(o.doc) ELSE <<>>]

NoData == <<"No data available for analysis">>

Placeholder ==
    <<"Basic scraping completed - limited insights available without MCP">>

\* an insight_generator that leaves insights blank when there is no data
insight_generator_blank(st) ==
    IF st.job_data = <<>> /\ st.news_data = <<>>
    THEN st
    ELSE [st EXCEPT !.insights = Placeholder]

\* an insight_generator whose emptiness test uses "or"
insight_generator_or(st) ==
    IF st.job_data = <<>> \/ st.news_data = <<>>
    THEN [st EXCEPT !.insights = NoData]
    ELSE [st EXCEPT !.insights = Placeholder]

insight_generator(st) ==
    IF st.job_data = <<>> /\ st.news_data = <<>>
    THEN [st EXCEPT !.insights = NoData]
    ELSE [st EXCEPT !.insights = Placeholder]

\* a dashboard_builder that returns the state with the rendered lists consumed
dashboard_builder_consumes(st) ==
    [st EXCEPT !.job_data = <<>>, !.news_data = <<>>]

dashboard_builder(st) == st

\* every text dashboard_builder interpolates into console markup
DashboardTexts(st) ==
    {st.competitor, st.insights}
        \cup { st.job_data[i].title : i \in 1..Len(st.job_data) }
        \cup { st.news_data[i].title : i \in 1..Len(st.news_data) }

\* scouts that interpolate the competitor name as given
ScoutUrlKeepsCase(n, competitor) ==
    <<"https://www.">> \o competitor
        \o (IF n = "jobs" THEN <<".com/careers">> ELSE <<".com/blog">>)

ScoutUrl(n, competitor) ==
    IF n = "jobs" THEN CareersUrl(competitor) ELSE BlogUrl(competitor)

Scout(n, st, o, logOk) ==
    IF n = "jobs" THEN job_scout(st, o, logOk) ELSE news_hunter(st, o, logOk)

\* str(e) in the except clause: requests' messages quote the host and path
ExceptionText(n, competitor, exc) ==
    IF exc \in {"ConnectionError", "Timeout"} THEN ScoutUrl(n, competitor) ELSE <<>>

---------------------------------------------------------------------------
(* Initial state: main() has parsed its arguments *)

Init ==
    /\ args \in Subjects
    /\ mainpc = "banner"
    /\ state = initial_state(args)
    /\ frontier = {}
    /\ running = {}
    /\ fetching = {}
    /\ elapsed = [n \in ScoutNodes |-> 0]
    /\ outcome = [n \in ScoutNodes |-> Pending]
    /\ caught = [n \in ScoutNodes |-> "none"]
    /\ fetches = <<>>
    /\ started = <<>>
    /\ returned = <<>>
    /\ raised = "none"
    /\ result = <<>>

---------------------------------------------------------------------------
(* Engine steps *)

\* an exception leaves node or main() `where` and nothing catches it
Crash(where) ==
    /\ mainpc' = "crashed"
    /\ raised' = where
    /\ running' = {}
    /\ frontier' = {}
    /\ fetching' = {}
    /\ UNCHANGED <<args, state, elapsed, outcome, caught, fetches, started,
                   returned, result>>

\* node n returns dict st: the graph stores it and schedules n's successors
Return(n, st) ==
    /\ state' = st
    /\ running' = running \ {n}
    /\ frontier' = frontier \cup Succ(n)
    /\ returned' = Append(returned, n)
    /\ UNCHANGED <<args, mainpc, raised, result>>

RECURSIVE SetToSeq(_)
SetToSeq(S) ==
    IF S = {} THEN <<>>
    ELSE LET x == CHOOSE y \in S : TRUE IN <<x>> \o SetToSeq(S \ {x})

\* main(): the banner Panel, then create_workflow() and app.invoke(initial_state)
MainBanner(sinkOk) ==
    /\ mainpc = "banner"
    /\ IF ConsolePrints(sinkOk, args)
       THEN /\ mainpc' = "invoke"
            /\ state' = initial_state(args)
            /\ frontier' = {EntryPoint}
            /\ UNCHANGED <<args, running, fetching, elapsed, outcome, caught,
                           fetches, started, returned, raised, result>>
       ELSE Crash("main")

\* the graph enters every scheduled node once the previous step has finished
BeginStep ==
    /\ mainpc = "invoke"
    /\ running = {}
    /\ frontier \ {END} # {}
    /\ running' = frontier \ {END}
    /\ frontier' = {}
    /\ started' = started \o SetToSeq(frontier \ {END})
    /\ UNCHANGED <<args, mainpc, state, fetching, elapsed, outcome, caught,
                   fetches, returned, raised, result>>

\* nothing but END is scheduled: app.invoke returns the state
EndRun ==
    /\ mainpc = "invoke"
    /\ running = {}
    /\ frontier \ {END} = {}
    /\ mainpc' = "returned"
    /\ result' = <<state>>
    /\ frontier' = {}
    /\ UNCHANGED <<args, state, running, fetching, elapsed, outcome, caught,
                   fetches, started, returned, raised>>

\* main() prints its closing line
MainDone(sinkOk) ==
    /\ mainpc = "returned"
    /\ IF ConsolePrints(sinkOk, <<>>)
       THEN /\ mainpc' = "exited"
            /\ UNCHANGED <<args, state, frontier, running, fetching, elapsed,
                           outcome, caught, fetches, started, returned, raised,
                           result>>
       ELSE Crash("main")

---------------------------------------------------------------------------
(* Node steps *)

Planner(sinkOk) ==
    /\ mainpc = "invoke"
    /\ "planner" \in running
    /\ IF ConsolePrints(sinkOk, state.competitor)
       THEN /\ Return("planner", intelligence_planner(state))
            /\ UNCHANGED <<fetching, elapsed, outcome, caught, fetches, started>>
       ELSE Crash("planner")

\* job_scout / news_hunter up to the call of requests.get
ScoutStart(n, sinkOk) ==
    /\ mainpc = "invoke"
    /\ n \in running /\ n \notin fetching /\ outcome[n] = Pending
    /\ IF ConsolePrints(sinkOk, state.competitor)
       THEN /\ fetching' = fetching \cup {n}
            /\ elapsed' = [elapsed EXCEPT ![n] = 0]
            /\ fetches' = Append(fetches, ScoutUrl(n, state.competitor))
            /\ UNCHANGED <<args, mainpc, state, frontier, running, outcome,
                           caught, started, returned, raised, result>>
       ELSE Crash(n)

\* one time unit passes inside requests.get
ScoutTick(n) ==
    /\ mainpc = "invoke"
    /\ n \in fetching
    /\ elapsed[n] < TIMEOUT
    /\ elapsed' = [elapsed EXCEPT ![n] = @ + 1]
    /\ UNCHANGED <<args, mainpc, state, frontier, running, fetching, outcome,
                   caught, fetches, started, returned, raised, result>>

\* requests.get has ended with o: the rest of the try block, the except
\* clause and the return
ScoutFinish(n, o, logOk, warnOk) ==
    LET exc == TryException(o, logOk) IN
    /\ outcome' = [outcome EXCEPT ![n] = o]
    /\ caught' = [caught EXCEPT ![n] = exc]
    /\ elapsed' = [elapsed EXCEPT ![n] = 0]
    /\ IF exc = "none" \/ ConsolePrints(warnOk, ExceptionText(n, state.competitor, exc))
       THEN /\ Return(n, Scout(n, state, o, logOk))
            /\ fetching' = fetching \ {n}
            /\ UNCHANGED <<fetches, started>>
       ELSE /\ mainpc' = "crashed"
            /\ raised' = n
            /\ running' = {}
            /\ frontier' = {}
            /\ fetching' = {}
            /\ UNCHANGED <<args, state, fetches, started, returned, result>>

\* the server answers, or the connection fails, before the timeout
ScoutRespond(n, o, logOk, warnOk) ==
    /\ mainpc = "invoke"
    /\ n \in fetching
    /\ elapsed[n] < TIMEOUT
    /\ o \in Arrivals
    /\ ScoutFinish(n, o, logOk, warnOk)

\* a scout that calls requests.get again when the first call times out
ScoutTimeoutRetries(n, warnOk) ==
    /\ mainpc = "invoke"
    /\ n \in fetching
    /\ elapsed[n] = TIMEOUT
    /\ elapsed' = [elapsed EXCEPT ![n] = 0]
    /\ fetches' = Append(fetches, ScoutUrl(n, state.competitor))
    /\ UNCHANGED <<args, mainpc, state, frontier, running, fetching, outcome,
                   caught, started, returned, raised, result>>

\* nothing arrived within TIMEOUT: requests.get raises Timeout
ScoutTimeout(n, warnOk) ==
    /\ mainpc = "invoke"
    /\ n \in fetching
    /\ elapsed[n] = TIMEOUT
    /\ ScoutFinish(n, TimedOut, TRUE, warnOk)

InsightGen(sinkOk) ==
    /\ mainpc = "invoke"
    /\ "insight_gen" \in running
    /\ IF ConsolePrints(sinkOk, <<>>)
       THEN /\ Return("insight_gen", insight_generator(state))
            /\ UNCHANGED <<fetching, elapsed, outcome, caught, fetches, started>>
       ELSE Crash("insight_gen")

Dashboard(sinkOk) ==
    /\ mainpc = "invoke"
    /\ "dashboard" \in running
    /\ IF \A t \in DashboardTexts(state) : ConsolePrints(sinkOk, t)
       THEN /\ Return("dashboard", dashboard_builder(state))
            /\ UNCHANGED <<fetching, elapsed, outcome, caught, fetches, started>>
       ELSE Crash("dashboard")

---------------------------------------------------------------------------

Next ==
    \/ \E ok \in BOOLEAN : MainBanner(ok)
    \/ BeginStep
    \/ \E ok \in BOOLEAN : Planner(ok)
    \/ \E n \in ScoutNodes, ok \in BOOLEAN : ScoutStart(n, ok)
    \/ \E n \in ScoutNodes : ScoutTick(n)
    \/ \E n \in ScoutNodes, o \in Arrivals, logOk \in BOOLEAN, warnOk \in BOOLEAN :
            ScoutRespond(n, o, logOk, warnOk)
    \/ \E n \in ScoutNodes, warnOk \in BOOLEAN : ScoutTimeout(n, warnOk)
    \/ \E ok \in BOOLEAN : InsightGen(ok)
    \/ \E ok \in BOOLEAN : Dashboard(ok)
    \/ EndRun
    \/ \E ok \in BOOLEAN : MainDone(ok)

Spec == Init /\ [][Next]_vars

\* The same program on a console whose sink accepts every write: the only
\* console failures left are those the printed text itself causes.
NextSinkUp ==
    \/ MainBanner(TRUE)
    \/ BeginStep
    \/ Planner(TRUE)
    \/ \E n \in ScoutNodes : ScoutStart(n, TRUE)
    \/ \E n \in ScoutNodes : ScoutTick(n)
    \/ \E n \in ScoutNodes, o \in Arrivals : ScoutRespond(n, o, TRUE, TRUE)
    \/ \E n \in ScoutNodes : ScoutTimeout(n, TRUE)
    \/ InsightGen(TRUE)
    \/ Dashboard(TRUE)
    \/ EndRun
    \/ MainDone(TRUE)

\* main() is one thread that always takes its next step, and a pending
\* requests.get always ends: by an answer, a connection error or its timeout.
SinkUpSpec == Init /\ [][NextSinkUp]_vars /\ WF_vars(NextSinkUp)


---------------------------------------------------------------------------
(* One scout stage on larger documents *)

\* longest document (in elements) handed to a scout stage on its own
MaxDocLen == 4

WideElems ==
    { Element("div", <<"Job", "-card">>, X(11)),
      Element("li", <<"open-", "position">>, <<" ">> \o X(10) \o <<" ">>),
      Element("div", <<"job">>, X(101)),
      Element("h2", <<>>, X(11)),
      Element("h1", <<"Position">>, X(10)) }

WideDocs == UNION { [1..n -> WideElems] : n \in 0..MaxDocLen }

\* The program inside requests.get of scout n, for --competitor Ac: the
\* planner has returned and, for news, job_scout has returned from a
\* connection error.
AtFetch(n) ==
    /\ args = <<"A", "c">>
    /\ mainpc = "invoke"
    /\ state = intelligence_planner(initial_state(args))
    /\ frontier = {}
    /\ running = {n}
    /\ fetching = {n}
    /\ elapsed = [m \in ScoutNodes |-> 0]
    /\ outcome = [m \in ScoutNodes |->
                    IF n = "news" /\ m = "jobs" THEN ConnectionFailure ELSE Pending]
    /\ caught = [m \in ScoutNodes |->
                    IF n = "news" /\ m = "jobs" THEN "ConnectionError" ELSE "none"]
    /\ fetches = IF n = "jobs" THEN << CareersUrl(args) >>
                 ELSE << CareersUrl(args), BlogUrl(args) >>
    /\ started = IF n = "jobs" THEN <<"planner", "jobs">>
                 ELSE <<"planner", "jobs", "news">>
    /\ returned = IF n = "jobs" THEN <<"planner">> ELSE <<"planner", "jobs">>
    /\ raised = "none"
    /\ result = <<>>

ExtractInit == \E n \in ScoutNodes : AtFetch(n)

\* the server answers 200 with document d: the rest of the scout stage
ExtractRespond(n, d, logOk, warnOk) ==
    /\ mainpc = "invoke"
    /\ n \in fetching
    /\ elapsed[n] < TIMEOUT
    /\ ScoutFinish(n, Response(200, d), logOk, warnOk)

ExtractNext ==
    \E n \in fetching :
        \E d \in WideDocs, logOk \in BOOLEAN, warnOk \in BOOLEAN :
            ExtractRespond(n, d, logOk, warnOk)

ExtractSpec == ExtractInit /\ [][ExtractNext]_vars

---------------------------------------------------------------------------
(* Properties *)

Range(s) == { s[i] : i \in 1..Len(s) }

IsPrefix(s, t) == Len(s) <= Len(t) /\ s = SubSeq(t, 1, Len(s))

\* plan, scout-jobs, scout-news, synthesize-insight, report
StageOrder == <<"planner", "jobs", "news", "insight_gen", "dashboard">>

\* the state field each stage owns (report owns none)
Owns(n, k) ==
    \/ n = "planner" /\ k = "target_urls"
    \/ n = "jobs" /\ k = "job_data"
    \/ n = "news" /\ k = "news_data"
    \/ n = "insight_gen" /\ k = "insights"

\* the field a scout stage fills
ScoutField(n) == IF n = "jobs" THEN "job_data" ELSE "news_data"

\* the stage's fetch or its parse raised
FetchOrParseFailed(n) ==
    caught[n] \in {"ConnectionError", "Timeout", "ParserRejectedMarkup"}

\* C1: the stages are entered in the order plan, scout-jobs, scout-news,
\* synthesize-insight, report, each at most once; a stage is entered only
\* after the previous one has returned, so at most one stage is active;
\* when the run returns every stage has run exactly once and nothing is
\* active or scheduled.
C1_StagesInOrder ==
    /\ IsPrefix(started, StageOrder)
    /\ IsPrefix(returned, StageOrder)
    /\ Len(returned) <= Len(started)
    /\ Len(started) <= Len(returned) + 1
    /\ Cardinality(running) <= 1
    /\ running \subseteq { started[i] : i \in (Len(returned) + 1)..Len(started) }
    /\ (result # <<>> =>
            /\ started = StageOrder
            /\ returned = StageOrder
            /\ running = {}
            /\ frontier = {})

C1_Witness == mainpc = "exited" /\ result # <<>> /\ returned = StageOrder

\* C2: when the fetch or the parse of a scout stage raises, the stage
\* returns with its field empty and no exception leaves the stage.
C2_ScoutFailureIsolated ==
    \A n \in ScoutNodes :
        FetchOrParseFailed(n) =>
            /\ raised # n
            /\ n \in Range(returned)
            /\ state[ScoutField(n)] = <<>>

\* C3: no exception ever leaves a stage: the run never ends aborted.
C3_NoFailureIsFatal == raised \notin Nodes

\* C4: once app.invoke has been called, the run eventually returns a final
\* state with the report stage completed.
C4_RunTerminates ==
    (mainpc = "invoke") ~> (result # <<>> /\ "dashboard" \in Range(returned))

\* C5: the competitor field of the state equals the command-line argument in
\* every state of the run, and in the state app.invoke returns.
C5_SubjectUnchanged ==
    /\ state.competitor = args
    /\ (result # <<>> => result[1].competitor = args)

C5_Witness ==
    /\ result # <<>>
    /\ args = <<"A", "c">>
    /\ result[1].target_urls # <<>>

\* C6: a completed fetch with a status outside 200..299 leaves the stage's
\* field empty.
C6_Non2xxIsFailure ==
    \A n \in ScoutNodes :
        (/\ n \in Range(returned)
         /\ outcome[n].kind = "response"
         /\ outcome[n].status \notin 200..299)
            => state[ScoutField(n)] = <<>>

\* C7: once scout-news has returned, news_data is determined by what the blog
\* fetch returned and by whether the news stage's own try block completed,
\* whatever happened to the careers fetch; likewise job_data is determined by
\* the careers fetch and the jobs stage alone, whatever the blog fetch does.
C7_SiblingStagesIndependent ==
    /\ "news" \in Range(returned) =>
            state.news_data =
                IF caught["news"] = "none"
                THEN Snippets(Articles(outcome["news"].doc), "blog")
                ELSE <<>>
    /\ "jobs" \in Range(returned) =>
            state.job_data =
                IF caught["jobs"] = "none"
                THEN Snippets(Prefix(JobElements(outcome["jobs"].doc), LIMIT),
                              "careers_page")
                ELSE <<>>

C7_Witness ==
    /\ mainpc = "returned"
    /\ outcome["jobs"].kind = "ConnectionError"
    /\ outcome["news"].kind = "response"
    /\ state.job_data = <<>>
    /\ state.news_data # <<>>

\* C8: a field of the state changes only in the step in which its owning
\* stage returns; every other field, competitor and use_mcp included, is
\* left as it was, on the success path and on the failure path.
C8_OnlyOwnerWrites ==
    [][ \A k \in DOMAIN state :
            state'[k] # state[k] =>
                \E n \in Nodes : returned' = Append(returned, n) /\ Owns(n, k) ]_vars

C8_Witness ==
    /\ "news" \in Range(returned)
    /\ FetchOrParseFailed("news")
    /\ state.news_data = <<>>
    /\ state.job_data # <<>>
    /\ state.target_urls # <<>>

\* C9: once synthesize-insight has returned, insights is the no-data message
\* exactly when job_data and news_data are both empty and the placeholder
\* otherwise; the two messages differ.
C9_InsightByEmptiness ==
    /\ NoData # Placeholder
    /\ "insight_gen" \in Range(returned) =>
            /\ state.insights \in {NoData, Placeholder}
            /\ state.insights = NoData <=>
                    (state.job_data = <<>> /\ state.news_data = <<>>)

C9_Witness ==
    /\ "insight_gen" \in Range(returned)
    /\ state.job_data = <<>>
    /\ state.news_data # <<>>
    /\ state.insights = Placeholder

\* C10: once plan has returned, target_urls is the careers, blog and changelog
\* URL of the lower-cased command-line argument, in that order, in every
\* later state, whatever the fetches did.
C10_TargetsFromSubject ==
    "planner" \in Range(returned) =>
        /\ Len(state.target_urls) = 3
        /\ state.target_urls[1] = <<"https://www.">> \o Lower(args) \o <<".com/careers">>
        /\ state.target_urls[2] = <<"https://www.">> \o Lower(args) \o <<".com/blog">>
        /\ state.target_urls[3] = <<"https://www.">> \o Lower(args) \o <<".com/changelog">>

C10_Witness ==
    /\ mainpc = "returned"
    /\ args = <<"A", "c">>
    /\ state.target_urls[1] = <<"https://www.", "a", "c", ".com/careers">>
    /\ outcome["jobs"].kind = "Timeout"
    /\ outcome["news"].kind = "response"

\* C14: the step in which report returns leaves every field of the state
\* as synthesize-insight produced it, and the state app.invoke returns is
\* that same state.
C14_ReportLeavesState ==
    [][ /\ returned' = Append(returned, "dashboard") => state' = state
        /\ result' # result => result' = <<state>> /\ state' = state
        /\ "insight_gen" \in Range(returned) => state' = state ]_vars

C14_Witness ==
    /\ mainpc = "returned"
    /\ result = <<state>>
    /\ state.job_data # <<>>
    /\ state.insights = Placeholder

\* C15: requests.get is called only by the scout stages, once each and
\* never again: the calls made so far are a prefix of <<careers URL, blog
\* URL>>, one per scout stage that has reached its fetch; a scout stage that
\* has returned has made its call, and a run that returns has made exactly
\* these two; the changelog URL is never fetched.
C15_OneFetchPerScout ==
    /\ IsPrefix(fetches, << <<"https://www.">> \o Lower(args) \o <<".com/careers">>,
                            <<"https://www.">> \o Lower(args) \o <<".com/blog">> >>)
    /\ Len(fetches) =
            Cardinality({ n \in ScoutNodes : n \in fetching \/ outcome[n] # Pending })
    /\ \A n \in ScoutNodes : n \in fetching => n \in running
    /\ "jobs" \in Range(returned) => Len(fetches) >= 1
    /\ "news" \in Range(returned) => Len(fetches) = 2
    /\ Len(fetches) = 2 => "news" \in Range(started)
    /\ \A i \in 1..Len(fetches) :
            fetches[i] # <<"https://www.">> \o Lower(args) \o <<".com/changelog">>

C15_Witness ==
    /\ mainpc = "returned"
    /\ Len(fetches) = 2
    /\ outcome["jobs"].kind = "Timeout"
    /\ outcome["news"].kind = "Timeout"

\* C16: insights is the empty string until synthesize-insight has returned
\* and non-empty in every state after that.
C16_InsightEmptyUntilSynthesis ==
    /\ "insight_gen" \notin Range(returned) => state.insights = <<>>
    /\ "insight_gen" \in Range(returned) => state.insights # <<>>

C16_Witness ==
    /\ mainpc = "returned"
    /\ state.job_data = <<>>
    /\ state.news_data = <<>>
    /\ state.insights = NoData

\* C17: no stage is ever entered with an empty competitor.
C17_SubjectNonEmpty == started # <<>> => state.competitor # <<>>

\* C18: a scout stage whose try block ended in an exception never leaves a
\* partial list: its field is empty when it returns (and in every state
\* before), also when the exception came after snippets had been appended.
C18_NoPartialList ==
    \A n \in ScoutNodes : caught[n] # "none" => state[ScoutField(n)] = <<>>

C18_Witness ==
    /\ "jobs" \in Range(returned)
    /\ caught["jobs"] = "ConsoleError"
    /\ JobSnippets(outcome["jobs"].doc) # <<>>
    /\ state.job_data = <<>>

\* C19: the URL scout-jobs fetches is the first element of target_urls and
\* the URL scout-news fetches is the second.
C19_FetchesAgreeWithPlan ==
    \A i \in 1..Len(fetches) :
        /\ i <= 2
        /\ Len(state.target_urls) = 3
        /\ fetches[i] = state.target_urls[i]

C19_Witness ==
    /\ mainpc = "returned"
    /\ args = <<"A", "c">>
    /\ Len(fetches) = 2
    /\ fetches[2] = <<"https://www.", "a", "c", ".com/blog">>

\* the elements of scout n's fetched document, in document order
FetchedElements(n) == outcome[n].doc

\* the job elements of the careers document: those the jobs selection rule
\* matches
MatchingJobs == JobElements(FetchedElements("jobs"))

\* an element qualifies when its text is longer than 10 characters
Qualifies(e) == Len(Strip(e.text)) > 10

\* the careers fetch succeeded and scout-jobs completed its try block
JobsExtracted ==
    /\ "jobs" \in Range(returned)
    /\ outcome["jobs"].kind = "response"
    /\ caught["jobs"] = "none"

\* C11: every snippet of job_data and news_data has a title of at most 100
\* characters that is the first 100 characters of the text of an element of
\* the stage's fetched document whose text is longer than 10 characters; a
\* title of 10 characters or fewer never appears.
C11_SnippetLengths ==
    \A n \in ScoutNodes :
        \A i \in 1..Len(state[ScoutField(n)]) :
            LET title == state[ScoutField(n)][i].title IN
            /\ Len(title) <= 100
            /\ Len(title) > 10
            /\ \E j \in 1..Len(FetchedElements(n)) :
                    LET text == Strip(FetchedElements(n)[j].text) IN
                    /\ Len(text) > 10
                    /\ title = SubSeq(text, 1, IF Len(text) < 100 THEN Len(text) ELSE 100)

C11_Witness ==
    /\ JobsExtracted
    /\ \E i \in 1..Len(state.job_data) : Len(state.job_data[i].title) = 100
    /\ \E j \in 1..Len(MatchingJobs) : Len(Strip(MatchingJobs[j].text)) = 10
    /\ \E j \in 1..Len(MatchingJobs) : Len(Strip(MatchingJobs[j].text)) = 11

\* C12 as stated: when the careers fetch succeeds, job_data has min(k, 3)
\* entries, k being the number of qualifying job elements of the document,
\* each tagged careers_page.
C12_MinOfQualifyingAndThree ==
    JobsExtracted =>
        LET k == Cardinality({ j \in 1..Len(MatchingJobs) : Qualifies(MatchingJobs[j]) })
        IN  /\ Len(state.job_data) = (IF k < 3 THEN k ELSE 3)
            /\ \A i \in 1..Len(state.job_data) :
                    state.job_data[i].source = "careers_page"

\* C12 as amended: when the careers fetch succeeds, job_data has one entry,
\* tagged careers_page, for each qualifying element among the first three job
\* elements of the document: exactly 3 when those three all qualify, never
\* more than min(k, 3), and fewer when a non-qualifying job element is among
\* the first three.
C12_QualifyingAmongFirstThree ==
    JobsExtracted =>
        LET m == Len(MatchingJobs)
            first == 1..(IF m < 3 THEN m ELSE 3)
            k == Cardinality({ j \in 1..m : Qualifies(MatchingJobs[j]) })
        IN  /\ Len(state.job_data) =
                    Cardinality({ j \in first : Qualifies(MatchingJobs[j]) })
            /\ Len(state.job_data) <= (IF k < 3 THEN k ELSE 3)
            /\ \A i \in 1..Len(state.job_data) :
                    state.job_data[i].source = "careers_page"

C12_Witness ==
    /\ JobsExtracted
    /\ Cardinality({ j \in 1..Len(MatchingJobs) : Qualifies(MatchingJobs[j]) }) = 3
    /\ ~Qualifies(MatchingJobs[1])
    /\ Len(state.job_data) = 2

\* C13: job_data and news_data never hold more than 3 snippets, however many
\* elements of the fetched document match.
C13_AtMostThree ==
    /\ Len(state.job_data) <= 3
    /\ Len(state.news_data) <= 3

C13_Witness ==
    /\ JobsExtracted
    /\ Len(MatchingJobs) = 4
    /\ \A j \in 1..4 : Qualifies(MatchingJobs[j])
    /\ Len(state.job_data) = 3

============================================================================
